---- MODULE Spec2Model ----
(***************************************************************************)
(* IntegrationTestHelper.generate (src/integration_test_helper.py):        *)
(* collection of the source files, the per-file read / parse / three-walk  *)
(* extraction into the shared `analysis` dict, creation of the output      *)
(* directory and the hand-over to the external generator.                  *)
(*                                                                         *)
(* Python strings are TLA+ strings; None is the string "None" (no Python   *)
(* identifier can be spelled None).  A syntax tree is a sequence of nodes, *)
(* node 1 being the Module; a node's body is the nodes naming it as        *)
(* parent, in increasing index.                                            *)
(***************************************************************************)
EXTENDS Integers, Sequences, FiniteSets, TLC

\* ------------------------------------------------------------------ bounds
\* Most entries of the source directory (Spec).
MaxFiles == 3
\* Most statements of the analysed file (SpecTree).
MaxStmts == 3

VARIABLES
    srcKind,      \* what source_path names: "file", "dir" or "missing"
    fs,           \* the entries at / beneath source_path, in enumeration order
    files,        \* local `files` (line 34 / 36): paths, as indices into fs
    idx,          \* number of iterations of `for file_path in files` finished
    pc,           \* position in generate()
    tree,         \* local `tree` (line 50)
    todo,         \* the nodes `for node in ast.walk(tree)` has yet to yield
    class_info,   \* local `class_info` (lines 64-67)
    body,         \* the items `for item in node.body` has yet to yield
    analysis,     \* local `analysis` (lines 38-43)
    diagnostics,  \* the lines printed by the except clause (line 92)
    destExists,   \* output_path is a directory
    genCalls,     \* the models self.generator.generate has been called with
    result        \* how generate() ended: the returned list or the exception

vars == <<srcKind, fs, files, idx, pc, tree, todo, class_info, body, analysis,
          diagnostics, destExists, genCalls, result>>

None == "None"

\* ------------------------------------------------------------ syntax trees
Containers == {"Module", "FunctionDef", "AsyncFunctionDef", "ClassDef", "If"}

Stmt(kind, name, module, names) ==
    [kind |-> kind, name |-> name, module |-> module, names |-> names]

Alias(name, asname) == [name |-> name, asname |-> asname]

\* def f(): ... / def g(): ... / async def h(): ... / class A: ... /
\* import os, a.b as d / from collections import OrderedDict as OD /
\* from . import x, y / if ...: ...
StmtForms ==
    { Stmt("FunctionDef", "f", None, <<>>),
      Stmt("FunctionDef", "g", None, <<>>),
      Stmt("AsyncFunctionDef", "h", None, <<>>),
      Stmt("ClassDef", "A", None, <<>>),
      Stmt("Import", None, None, <<Alias("os", None), Alias("a.b", "d")>>),
      Stmt("ImportFrom", None, "collections", <<Alias("OrderedDict", "OD")>>),
      Stmt("ImportFrom", None, None, <<Alias("x", None), Alias("y", None)>>),
      Stmt("If", None, None, <<>>) }

Node(form, parent) ==
    [kind |-> form.kind, name |-> form.name, module |-> form.module,
     names |-> form.names, parent |-> parent]

ModuleNode == Node(Stmt("Module", None, None, <<>>), 0)

EmptyTree == <<ModuleNode>>

\* The parents of n statements when the nodes are numbered level by level
\* (every tree has exactly one such numbering): statement i is node i + 1.
ParentMaps(n) ==
    { p \in [1..n -> 1..n] :
        \A i \in 1..n : p[i] <= i /\ (i > 1 => p[i - 1] <= p[i]) }

\* The tree of the statements forms[1..n] with the parents p.
Tree(forms, p) ==
    <<ModuleNode>> \o [i \in 1..Len(forms) |-> Node(forms[i], p[i])]

\* Only a compound statement has a body.
WellFormed(t) == \A i \in 2..Len(t) : t[t[i].parent].kind \in Containers

\* node.body: the statements directly inside node n, in order.
Body(t, n) ==
    SelectSeq([i \in 1..Len(t) |-> i], LAMBDA i : t[i].parent = n)

\* ast.walk(tree): breadth first from the root, children appended to the
\* queue in field order.
RECURSIVE WalkFrom(_, _)
WalkFrom(t, queue) ==
    IF queue = <<>> THEN <<>>
    ELSE <<Head(queue)>> \o WalkFrom(t, Tail(queue) \o Body(t, Head(queue)))

Walk(t) == WalkFrom(t, <<1>>)

\* ------------------------------------------------------- the file system
Text(status, t) == [status |-> status, tree |-> t]

Unreadable == Text("unreadable", EmptyTree)   \* open() / read() raises
BadSyntax == Text("syntax_error", EmptyTree)  \* ast.parse raises

Entry(py, text) == [py |-> py, text |-> text]

\* import os, a.b as d ; def f(): ...
TreeA ==
    << ModuleNode,
       Node(Stmt("Import", None, None, <<Alias("os", None), Alias("a.b", "d")>>), 1),
       Node(Stmt("FunctionDef", "f", None, <<>>), 1) >>

\* class A: def f(self): def g(): ...
TreeB ==
    << ModuleNode,
       Node(Stmt("ClassDef", "A", None, <<>>), 1),
       Node(Stmt("FunctionDef", "f", None, <<>>), 2),
       Node(Stmt("FunctionDef", "g", None, <<>>), 3) >>

Catalogue == {Text("ok", EmptyTree), Text("ok", TreeA), Text("ok", TreeB)}

\* What a directory can hold: *.py entries with any text, and other entries.
DirEntries ==
    { Entry(TRUE, c) : c \in Catalogue \cup {Unreadable, BadSyntax} }
        \cup {Entry(FALSE, Text("ok", EmptyTree))}

SeqsUpTo(S, n) == UNION { [1..k -> S] : k \in 0..n }

\* ------------------------------------------------------------- the model
EmptyModel ==
    [files |-> <<>>, functions |-> <<>>, classes |-> <<>>, imports |-> <<>>]

Truthy(s) == s # None /\ s # ""

\* Python's `a or b`.
Or(a, b) == IF Truthy(a) THEN a ELSE b

\* isinstance(node, ast.FunctionDef); ast.AsyncFunctionDef is no subclass.
IsFunctionDef(node) == node.kind = "FunctionDef"

IsClassDef(node) == node.kind = "ClassDef"

\* Lines 55-58.
func_info(node) == [name |-> node.name, args |-> <<>>]

\* Lines 64-67.
NewClassInfo(node) == [name |-> node.name, methods |-> <<>>]

\* Line 70: class_info["methods"].append({"name": item.name}).
WithMethod(info, item) ==
    [info EXCEPT !.methods = Append(@, [name |-> item.name])]

\* Lines 75-89 with `alias.asname or alias.name` replaced by alias.name.
ImportRecordsNoAlias(node) ==
    IF node.kind = "Import" THEN
        [k \in 1..Len(node.names) |->
            LET alias == node.names[k] IN
            [module |-> alias.name, name |-> alias.name, type |-> "import"]]
    ELSE IF node.kind = "ImportFrom" THEN
        LET module == Or(node.module, "") IN
        [k \in 1..Len(node.names) |->
            LET alias == node.names[k] IN
            [module |-> IF Truthy(module) THEN module \o "." \o alias.name
                        ELSE alias.name,
             name |-> alias.name,
             type |-> "from_import"]]
    ELSE <<>>

\* Lines 75-89: the records one node of the third walk appends.
ImportRecords(node) ==
    IF node.kind = "Import" THEN
        [k \in 1..Len(node.names) |->
            LET alias == node.names[k] IN
            [module |-> alias.name,
             name |-> Or(alias.asname, alias.name),
             type |-> "import"]]
    ELSE IF node.kind = "ImportFrom" THEN
        LET module == Or(node.module, "") IN
        [k \in 1..Len(node.names) |->
            LET alias == node.names[k] IN
            [module |-> IF Truthy(module) THEN module \o "." \o alias.name
                        ELSE alias.name,
             name |-> Or(alias.asname, alias.name),
             type |-> "from_import"]]
    ELSE <<>>

\* source_path.rglob("*.py"): the matching entries beneath the path, none
\* when the path is no directory.
Rglob(kind, entries) ==
    IF kind = "dir"
    THEN SelectSeq([i \in 1..Len(entries) |-> i], LAMBDA i : entries[i].py)
    ELSE <<>>

\* Lines 33-36.
Collected(kind, entries) ==
    IF kind = "file" THEN <<1>> ELSE Rglob(kind, entries)

\* Line 92: print(f"Error parsing {file_path}: {e}").
Diagnostic(path, e) == [file |-> path, error |-> e]

\* ------------------------------------------------------------------ states
\* The directory runs: source_path is a file, a directory of at most
\* MaxFiles entries, or names nothing.
Worlds ==
    { [kind |-> "dir", entries |-> es] : es \in SeqsUpTo(DirEntries, MaxFiles) }
        \cup { [kind |-> "file", entries |-> <<Entry(py, c)>>] :
                 py \in BOOLEAN, c \in Catalogue \cup {Unreadable, BadSyntax} }
        \cup { [kind |-> "missing", entries |-> <<>>] }

\* The single-file runs with a text that cannot be read or parsed.
BadWorlds ==
    { [kind |-> "file", entries |-> <<Entry(TRUE, c)>>] :
        c \in {Unreadable, BadSyntax} }

\* The single-file run over the tree t.
TreeWorld(t) == [kind |-> "file", entries |-> <<Entry(TRUE, Text("ok", t))>>]

Start(w) ==
    /\ srcKind = w.kind
    /\ fs = w.entries
    /\ files = <<>>
    /\ idx = 0
    /\ pc = "collect"
    /\ tree = EmptyTree
    /\ todo = <<>>
    /\ class_info = None
    /\ body = <<>>
    /\ analysis = EmptyModel
    /\ diagnostics = <<>>
    /\ destExists \in BOOLEAN
    /\ genCalls = <<>>
    /\ result = None

Init == \E w \in Worlds : Start(w)

\* source_path is one file holding any tree of at most MaxStmts statements,
\* or a text that cannot be read or parsed.
InitTree ==
    \/ \E w \in BadWorlds : Start(w)
    \/ \E n \in 0..MaxStmts :
         \E forms \in [1..n -> StmtForms], p \in ParentMaps(n) :
            /\ WellFormed(Tree(forms, p))
            /\ Start(TreeWorld(Tree(forms, p)))

\* ----------------------------------------------------------------- actions
\* `for file_path in files`: the file of the running iteration.
file_path == files[idx + 1]

\* `for node in ast.walk(tree)`: the node of the running iteration.
node == tree[Head(todo)]

\* Lines 91-92 with the try statement around the loop: the first failure
\* ends the loop.
ExceptBreak(e) ==
    /\ diagnostics' = Append(diagnostics, Diagnostic(file_path, e))
    /\ idx' = Len(files)
    /\ pc' = "for"

\* Lines 91-92 with `pass` in place of the print.
ExceptSilent(e) ==
    /\ diagnostics' = diagnostics
    /\ idx' = idx + 1
    /\ pc' = "for"

\* Lines 91-92: the except clause ends the iteration.
Except(e) ==
    /\ diagnostics' = Append(diagnostics, Diagnostic(file_path, e))
    /\ idx' = idx + 1
    /\ pc' = "for"

\* analysis[key].insert(0, r) in place of the append.
Prepended(key, rs) == [analysis EXCEPT ![key] = rs \o @]

\* analysis[key] = [r] in place of the append.
Replaced(key, rs) == [analysis EXCEPT ![key] = IF rs = <<>> THEN @ ELSE rs]

\* analysis[key].append(r) for each r of rs, in order.
Appended(key, rs) == [analysis EXCEPT ![key] = @ \o rs]

\* The walk goes on with its next node, or is over and the code after it
\* (`after`) runs: the next walk starts, or the iteration of the file ends.
NextNode(after) ==
    IF Tail(todo) # <<>>
    THEN todo' = Tail(todo) /\ UNCHANGED <<pc, idx>>
    ELSE /\ pc' = after
         /\ todo' = IF after = "for" THEN <<>> ELSE Walk(tree)
         /\ idx' = IF after = "for" THEN idx + 1 ELSE idx

\* Lines 33-43.
Collect ==
    /\ pc = "collect"
    /\ files' = Collected(srcKind, fs)
    /\ analysis' = EmptyModel
    /\ pc' = "for"
    /\ UNCHANGED <<srcKind, fs, idx, tree, todo, class_info, body, diagnostics,
                   destExists, genCalls, result>>

\* Lines 45-48, the text is read.
ReadFile ==
    /\ pc = "for"
    /\ idx < Len(files)
    /\ fs[file_path].text.status # "unreadable"
    /\ pc' = "parse"
    /\ UNCHANGED <<srcKind, fs, files, idx, tree, todo, class_info, body,
                   analysis, diagnostics, destExists, genCalls, result>>

\* Lines 45-48, open() or read() raises.
ReadFileError ==
    /\ pc = "for"
    /\ idx < Len(files)
    /\ fs[file_path].text.status = "unreadable"
    /\ Except("OSError")
    /\ UNCHANGED <<srcKind, fs, files, tree, todo, class_info, body, analysis,
                   destExists, genCalls, result>>

\* Lines 50-53, the text parses and the first walk starts.
Parse ==
    /\ pc = "parse"
    /\ fs[file_path].text.status = "ok"
    /\ tree' = fs[file_path].text.tree
    /\ todo' = Walk(tree')
    /\ pc' = "functions"
    /\ UNCHANGED <<srcKind, fs, files, idx, class_info, body, analysis,
                   diagnostics, destExists, genCalls, result>>

\* Line 50, ast.parse raises.
ParseError ==
    /\ pc = "parse"
    /\ fs[file_path].text.status = "syntax_error"
    /\ Except("SyntaxError")
    /\ UNCHANGED <<srcKind, fs, files, tree, todo, class_info, body, analysis,
                   destExists, genCalls, result>>

\* Lines 53-59, one node of the first walk.
VisitFunction ==
    /\ pc = "functions"
    /\ analysis' = IF IsFunctionDef(node)
                   THEN Appended("functions", <<func_info(node)>>)
                   ELSE analysis
    /\ NextNode("classes")
    /\ UNCHANGED <<srcKind, fs, files, tree, class_info, body, diagnostics,
                   destExists, genCalls, result>>

\* Lines 62-63, a node of the second walk that is no class.
VisitOther ==
    /\ pc = "classes"
    /\ ~IsClassDef(node)
    /\ NextNode("imports")
    /\ UNCHANGED <<srcKind, fs, files, tree, class_info, body, analysis,
                   diagnostics, destExists, genCalls, result>>

\* Lines 62-68, a class node of the second walk: the record is begun.
VisitClass ==
    /\ pc = "classes"
    /\ IsClassDef(node)
    /\ class_info' = NewClassInfo(node)
    /\ body' = Body(tree, Head(todo))
    /\ pc' = "methods"
    /\ UNCHANGED <<srcKind, fs, files, idx, tree, todo, analysis, diagnostics,
                   destExists, genCalls, result>>

\* Lines 68-70, one item of the class body.
VisitItem ==
    /\ pc = "methods"
    /\ body # <<>>
    /\ class_info' = IF IsFunctionDef(tree[Head(body)])
                     THEN WithMethod(class_info, tree[Head(body)])
                     ELSE class_info
    /\ body' = Tail(body)
    /\ UNCHANGED <<srcKind, fs, files, idx, pc, tree, todo, analysis,
                   diagnostics, destExists, genCalls, result>>

\* Line 71, the class body is through: the record is appended.
AppendClass ==
    /\ pc = "methods"
    /\ body = <<>>
    /\ analysis' = Appended("classes", <<class_info>>)
    /\ IF Tail(todo) # <<>>
       THEN pc' = "classes" /\ todo' = Tail(todo)
       ELSE pc' = "imports" /\ todo' = Walk(tree)
    /\ UNCHANGED <<srcKind, fs, files, idx, tree, class_info, body, diagnostics,
                   destExists, genCalls, result>>

\* Lines 74-89, one node of the third walk; after the last one the
\* iteration of the file is over.
VisitImport ==
    /\ pc = "imports"
    /\ analysis' = Appended("imports", ImportRecords(node))
    /\ NextNode("for")
    /\ UNCHANGED <<srcKind, fs, files, tree, class_info, body, diagnostics,
                   destExists, genCalls, result>>

\* Line 95 left out: the generator is called without the mkdir.
MkdirSkipped ==
    /\ pc = "for"
    /\ idx = Len(files)
    /\ pc' = "generate"
    /\ UNCHANGED <<srcKind, fs, files, idx, tree, todo, class_info, body,
                   analysis, diagnostics, destExists, genCalls, result>>

\* Line 95: output_path.mkdir(parents=True, exist_ok=True).
Mkdir ==
    /\ pc = "for"
    /\ idx = Len(files)
    /\ destExists' = TRUE
    /\ pc' = "generate"
    /\ UNCHANGED <<srcKind, fs, files, idx, tree, todo, class_info, body,
                   analysis, diagnostics, genCalls, result>>

\* Line 95, mkdir raises (the path or a parent of it is a regular file, or
\* may not be written).
MkdirError ==
    /\ pc = "for"
    /\ idx = Len(files)
    /\ ~destExists
    /\ result' = "OSError"
    /\ pc' = "raised"
    /\ UNCHANGED <<srcKind, fs, files, idx, tree, todo, class_info, body,
                   analysis, diagnostics, destExists, genCalls>>

\* What the external generator can do with the model it is given.
GeneratorOutcomes == {"returned", "GeneratorError"}

\* Lines 96-98.
Generate ==
    /\ pc = "generate"
    /\ genCalls' = Append(genCalls, analysis)
    /\ \E outcome \in GeneratorOutcomes :
         /\ result' = outcome
         /\ pc' = IF outcome = "returned" THEN "done" ELSE "raised"
    /\ UNCHANGED <<srcKind, fs, files, idx, tree, todo, class_info, body,
                   analysis, diagnostics, destExists>>

Next ==
    \/ Collect
    \/ ReadFile
    \/ ReadFileError
    \/ Parse
    \/ ParseError
    \/ VisitFunction
    \/ VisitOther
    \/ VisitClass
    \/ VisitItem
    \/ AppendClass
    \/ VisitImport
    \/ Mkdir
    \/ MkdirError
    \/ Generate

Spec == Init /\ [][Next]_vars

SpecTree == InitTree /\ [][Next]_vars

\* ------------------------------------------------------------- properties
Status(p) == fs[p].text.status

Succeeded(p) == Status(p) = "ok"

\* The for loop is over.
LoopDone == pc \in {"generate", "done", "raised"}

\* generate() has returned or raised.
Ended == pc \in {"done", "raised"}

\* How many records of s have the name.
Named(s, name) == Cardinality({k \in 1..Len(s) : s[k].name = name})

\* How many times x occurs in s.
Occurrences(s, x) == Cardinality({k \in 1..Len(s) : s[k] = x})

IsPrefix(s, t) == Len(s) <= Len(t) /\ SubSeq(t, 1, Len(s)) = s

\* The running iteration's file cannot be read, or cannot be parsed, and the
\* next step is the one that raises.
FileFails ==
    /\ idx < Len(files)
    /\ \/ pc = "for" /\ Status(file_path) = "unreadable"
       \/ pc = "parse" /\ Status(file_path) = "syntax_error"

\* C1: when reading or parsing a file fails, no step of that file's
\* iteration changes the model (what earlier files appended stays, the file
\* adds nothing), and the failing step is caught: the loop goes on with the
\* next file and generate() does not raise.
C1_FailureIsolated ==
    [][ /\ (idx < Len(files) /\ ~Succeeded(file_path)) => analysis' = analysis
        /\ FileFails => /\ pc' = "for"
                        /\ idx' = idx + 1
                        /\ files' = files
                        /\ result' = None ]_vars

\* A run over <good, bad, good> has ended normally with the records of both
\* good files.
C1_Witness ==
    /\ pc = "done"
    /\ Len(files) = 3
    /\ Succeeded(files[1]) /\ ~Succeeded(files[2]) /\ Succeeded(files[3])
    /\ fs[files[1]].text.tree = TreeA
    /\ fs[files[3]].text.tree = TreeB
    /\ Len(analysis.functions) = 3
    /\ Len(diagnostics) = 1

\* C2: a source path that names nothing ends the run with an error before
\* anything is analysed and without the generator being invoked.
C2_MissingPathRaises ==
    srcKind = "missing" =>
        /\ genCalls = <<>>
        /\ pc \notin {"parse", "functions", "classes", "imports", "generate", "done"}

\* C3: when extraction is over, analysis["files"] lists the successfully
\* processed files in processing order, and no failed file.
C3_FilesRecorded ==
    LoopDone => analysis.files = SelectSeq(files, Succeeded)

\* A function definition of the Python grammar: def or async def.
IsFunctionDefinition(nd) == nd.kind \in {"FunctionDef", "AsyncFunctionDef"}

\* The only file of the run has been extracted.
OneFileExtracted == Len(files) = 1 /\ idx = 1 /\ Succeeded(files[1])

TheTree == fs[files[1]].text.tree

\* The function definitions of t, at every level.
Definitions(t) == {n \in 1..Len(t) : IsFunctionDefinition(t[n])}

\* Those written with a plain def.
PlainDefinitions(t) == {n \in 1..Len(t) : t[n].kind = "FunctionDef"}

\* C4: a valid file with N function definitions, at any nesting level, adds
\* exactly N Function Records, one per definition with its name and empty
\* args, equal names kept apart.
C4_OneRecordPerDefinition ==
    OneFileExtracted =>
        LET defs == Definitions(TheTree) IN
        /\ Len(analysis.functions) = Cardinality(defs)
        /\ \A k \in 1..Len(analysis.functions) : analysis.functions[k].args = <<>>
        /\ \A name \in {"f", "g", "h"} :
             Named(analysis.functions, name)
                 = Cardinality({n \in defs : TheTree[n].name = name})

\* The same for the definitions written with a plain def.
PlainDefsRecorded ==
    OneFileExtracted =>
        LET defs == PlainDefinitions(TheTree) IN
        /\ Len(analysis.functions) = Cardinality(defs)
        /\ \A k \in 1..Len(analysis.functions) : analysis.functions[k].args = <<>>
        /\ \A name \in {"f", "g", "h"} :
             Named(analysis.functions, name)
                 = Cardinality({n \in defs : TheTree[n].name = name})

\* The names of the function definitions directly in the body of node n.
DirectDefinitions(t, n) ==
    LET direct == SelectSeq([i \in 1..Len(t) |-> i],
                            LAMBDA i : t[i].parent = n /\ IsFunctionDefinition(t[i]))
    IN  [k \in 1..Len(direct) |-> [name |-> t[direct[k]].name]]

\* Node n is inside node c, at any depth.
RECURSIVE IsBelow(_, _, _)
IsBelow(t, n, c) ==
    n > 1 /\ (t[n].parent = c \/ IsBelow(t, t[n].parent, c))

\* The nodes inside class c that are not statements of its own body.
Deeper(t, c) == {n \in 1..Len(t) : IsBelow(t, n, c) /\ t[n].parent # c}

\* The class definitions of t, nested ones too, level by level.
ClassNodes(t) ==
    SelectSeq([i \in 1..Len(t) |-> i], LAMBDA i : t[i].kind = "ClassDef")

\* C5: every class definition, nested ones too, has its own Class Record
\* whose methods are the function definitions directly in the class body, in
\* body order; deeper definitions are in no methods list but are in functions.
C5_MethodsAreDirectDefinitions ==
    OneFileExtracted =>
        LET cls == ClassNodes(TheTree) IN
        /\ Len(analysis.classes) = Len(cls)
        /\ \A k \in 1..Len(cls) :
             /\ analysis.classes[k].name = TheTree[cls[k]].name
             /\ analysis.classes[k].methods = DirectDefinitions(TheTree, cls[k])
        /\ \A k \in 1..Len(cls) :
             \A n \in Deeper(TheTree, cls[k]) \cap Definitions(TheTree) :
                Named(analysis.functions, TheTree[n].name) > 0

\* The same for the methods written with a plain def.
PlainMethodsRecorded ==
    OneFileExtracted =>
        LET cls == ClassNodes(TheTree) IN
        /\ Len(analysis.classes) = Len(cls)
        /\ \A k \in 1..Len(cls) :
             /\ analysis.classes[k].name = TheTree[cls[k]].name
             /\ analysis.classes[k].methods =
                    SelectSeq(DirectDefinitions(TheTree, cls[k]),
                              LAMBDA m : m.name # "h")
        /\ \A k \in 1..Len(cls) :
             \A n \in Deeper(TheTree, cls[k]) \cap PlainDefinitions(TheTree) :
                Named(analysis.functions, TheTree[n].name) > 0

\* The record the data model gives to one imported name of an import node.
ImportRecordOf(nd, alias) ==
    [module |-> IF nd.kind = "Import" \/ nd.module \in {None, ""}
                THEN alias.name
                ELSE nd.module \o "." \o alias.name,
     name |-> IF alias.asname # None THEN alias.asname ELSE alias.name,
     type |-> IF nd.kind = "Import" THEN "import" ELSE "from_import"]

\* The imported names of t: (node, position in the statement).
ImportedNames(t) ==
    { <<n, k>> \in (1..Len(t)) \X (1..2) :
        t[n].kind \in {"Import", "ImportFrom"} /\ k <= Len(t[n].names) }

\* C6: every imported name of every import statement yields exactly one
\* Import Record, of the shape the data model gives, and there is no other
\* Import Record.
C6_ImportRecords ==
    OneFileExtracted =>
        LET names == ImportedNames(TheTree)
            expected == {ImportRecordOf(TheTree[x[1]], TheTree[x[1]].names[x[2]]) :
                           x \in names}
        IN  /\ Len(analysis.imports) = Cardinality(names)
            /\ \A k \in 1..Len(analysis.imports) : analysis.imports[k] \in expected
            /\ \A r \in expected :
                 Occurrences(analysis.imports, r)
                     = Cardinality({x \in names :
                          ImportRecordOf(TheTree[x[1]], TheTree[x[1]].names[x[2]]) = r})

\* A file with a plain import, a from-import with an alias and a from-import
\* without a source module has been extracted.
C6_Witness ==
    /\ OneFileExtracted
    /\ \E a, b, c \in 2..Len(TheTree) :
         /\ TheTree[a].kind = "Import"
         /\ TheTree[b].kind = "ImportFrom" /\ TheTree[b].module = "collections"
         /\ TheTree[c].kind = "ImportFrom" /\ TheTree[c].module = None
    /\ Len(analysis.imports) = 5
    /\ \E k \in 1..5 :
         analysis.imports[k] =
             [module |-> "collections.OrderedDict", name |-> "OD",
              type |-> "from_import"]

\* What holds of the generator's invocations at every moment: at most one,
\* after the loop, with the destination in place, with the model as it is
\* and stays.
GeneratorCalledRight ==
    /\ Len(genCalls) <= 1
    /\ genCalls # <<>> =>
         /\ LoopDone
         /\ idx = Len(files)
         /\ destExists
         /\ genCalls[1] = analysis

\* C7 as stated: whenever collection does not fail, the run invokes the
\* generator exactly once, after the loop, with the completed model and the
\* destination in place, and the model does not change afterwards.
C7_GeneratorExactlyOnce ==
    srcKind # "missing" =>
        /\ GeneratorCalledRight
        /\ Ended => Len(genCalls) = 1

\* C7 amended: the same, except that a run in which creating the
\* destination fails ends with that error and without any invocation.
C7_GeneratorOnceUnlessMkdirFails ==
    srcKind # "missing" =>
        /\ GeneratorCalledRight
        /\ Ended => Len(genCalls) = IF result = "OSError" THEN 0 ELSE 1

\* The generator has been given the model of a two-file run and has
\* returned.
C7_Witness ==
    /\ pc = "done"
    /\ srcKind = "dir"
    /\ Len(files) = 2
    /\ Len(genCalls) = 1
    /\ Len(genCalls[1].functions) = 3
    /\ destExists

\* C8: exactly one diagnostic, naming the file and the cause, for each file
\* whose read or parse has failed, and none for any other file.
C8_OneDiagnosticPerFailure ==
    /\ Len(diagnostics) = Cardinality({k \in 1..idx : ~Succeeded(files[k])})
    /\ \A k \in 1..idx :
         Cardinality({j \in 1..Len(diagnostics) : diagnostics[j].file = files[k]})
             = IF Succeeded(files[k]) THEN 0 ELSE 1
    /\ \A k \in 1..Len(diagnostics) :
         diagnostics[k].error =
             IF Status(diagnostics[k].file) = "unreadable" THEN "OSError"
             ELSE "SyntaxError"

\* A run with an unreadable file, an unparsable file and a good file has
\* ended.
C8_Witness ==
    /\ Ended
    /\ Len(diagnostics) = 2
    /\ \E i, j, k \in 1..Len(files) :
         /\ Status(files[i]) = "unreadable"
         /\ Status(files[j]) = "syntax_error"
         /\ Succeeded(files[k])

\* C9: in every step each of functions, classes and imports keeps its
\* previous value as a prefix of its new value, and a step that adds a Class
\* Record is taken when the loop over the class body is through.
C9_AppendOnly ==
    [][ /\ IsPrefix(analysis.functions, analysis'.functions)
        /\ IsPrefix(analysis.classes, analysis'.classes)
        /\ IsPrefix(analysis.imports, analysis'.imports)
        /\ analysis'.classes # analysis.classes =>
              /\ pc = "methods" /\ body = <<>>
              /\ analysis'.classes = Append(analysis.classes, class_info) ]_vars

\* Two files have each added function records.
C9_Witness ==
    /\ idx = 2
    /\ fs[files[1]].text.tree = TreeB
    /\ fs[files[2]].text.tree = TreeA
    /\ Succeeded(files[1]) /\ Succeeded(files[2])
    /\ Len(analysis.functions) = 3
    /\ Len(analysis.imports) = 2

RECURSIVE Flatten(_)
Flatten(ss) == IF ss = <<>> THEN <<>> ELSE Head(ss) \o Flatten(Tail(ss))

\* What the three walks over t append when t is extracted alone.
ExtractFunctions(t) ==
    LET ns == SelectSeq(Walk(t), LAMBDA n : IsFunctionDef(t[n]))
    IN  [k \in 1..Len(ns) |-> func_info(t[ns[k]])]

MethodsOf(t, n) ==
    LET is == SelectSeq(Body(t, n), LAMBDA i : IsFunctionDef(t[i]))
    IN  [k \in 1..Len(is) |-> [name |-> t[is[k]].name]]

ExtractClasses(t) ==
    LET ns == SelectSeq(Walk(t), LAMBDA n : IsClassDef(t[n]))
    IN  [k \in 1..Len(ns) |-> [name |-> t[ns[k]].name, methods |-> MethodsOf(t, ns[k])]]

ExtractImports(t) ==
    Flatten([k \in 1..Len(Walk(t)) |-> ImportRecords(t[Walk(t)[k]])])

\* The trees of the files that were processed successfully among the first
\* n collected, in collection order.
TreesDone(n) ==
    LET ps == SelectSeq(SubSeq(files, 1, n), Succeeded)
    IN  [k \in 1..Len(ps) |-> fs[ps[k]].text.tree]

\* C10: between iterations and after the loop, each of functions, classes
\* and imports is the concatenation, in collection order, of what the
\* successfully processed files so far contribute alone.
C10_ConcatenationInOrder ==
    pc \in {"for", "generate", "done", "raised"} =>
        LET ts == TreesDone(idx) IN
        /\ analysis.functions = Flatten([k \in 1..Len(ts) |-> ExtractFunctions(ts[k])])
        /\ analysis.classes = Flatten([k \in 1..Len(ts) |-> ExtractClasses(ts[k])])
        /\ analysis.imports = Flatten([k \in 1..Len(ts) |-> ExtractImports(ts[k])])

\* Three files, two of them contributing, have been processed in order.
C10_Witness ==
    /\ pc = "done"
    /\ Len(files) = 3
    /\ fs[files[1]].text.tree = TreeA /\ Succeeded(files[1])
    /\ fs[files[3]].text.tree = TreeB /\ Succeeded(files[3])
    /\ analysis.functions = <<func_info(TreeA[3]), func_info(TreeB[3]),
                              func_info(TreeB[4])>>

====
